---- MODULE Spec2Model ----
(***************************************************************************)
(* Skill Decay Tracker: the store of skills and practice logs, and the     *)
(* derived views (health, dashboard, alerts, history) as computed by the   *)
(* two hosts of the repository: the Express/SQLite server                  *)
(* (src/server/index.js) and the localStorage client                       *)
(* (src/client/src/storage.ts).                                            *)
(*                                                                         *)
(* Time is counted in ticks, TicksPerDay ticks to a day, so that elapsed   *)
(* time (floor of the difference over 24h) and calendar dates (the date    *)
(* part of a timestamp) are different things, as in the code.  The host    *)
(* clock is UTC.  decay_rate is kept in tenths (0.6 is 6); scores are      *)
(* exact fractions [n, d], d > 0.  A nullable value is <<>> (null) or      *)
(* <<v>>.  Of a skill only the fields the modelled handlers compute with   *)
(* are carried (category, notes and created_at feed presentation only).   *)
(***************************************************************************)
EXTENDS Integers, Sequences, FiniteSets, TLC

\* ---------------------------------------------------------------- bounds
MaxSkills == 2
MaxLogs == 2
MaxNow == 3
TicksPerDay == 1

\* ------------------------------------------------------ program constants
DefaultDecayRate == 10
DefaultTargetDays == 7
StreakWindow == 30
DefaultHistoryDays == 30
RecentDays == 7
QuickDuration == 15
QuickQuality == 3

Null == <<>>
Some(v) == <<v>>
IsNull(x) == x = <<>>
Val(x) == x[1]
\* JavaScript's `x || dflt` on a nullable number: null and 0 are falsy
OrDefault(x, dflt) == IF IsNull(x) \/ Val(x) = 0 THEN dflt ELSE Val(x)
\* SQL's COALESCE(?, old)
Coalesce(x, old) == IF IsNull(x) THEN old ELSE Val(x)

\* ------------------------------------------------------------ input sets
Hosts == {"server", "client"}
Names == {"a"}
\* (decay_rate in tenths, target_frequency_days) of the skills created
Profiles == {<<15, 1>>, <<7, 1>>, <<6, 2>>, <<10, 1>>}
\* duration_minutes and quality a caller logs with (the server's are optional)
SrvDurations == {Null}
SrvQualities == {Null}
Durations == {30}
Qualities == {3}
HistoryWindows == {1, 3}

VARIABLES host, skills, logs, now, nextSkillId, nextLogId, recentIds, resp

vars == <<host, skills, logs, now, nextSkillId, nextLogId, recentIds, resp>>

NoResp == [op |-> "none"]

Range(s) == {s[i] : i \in DOMAIN s}

SelectSeqIdx(s, Keep(_)) ==
  LET F[i \in 0..Len(s)] ==
        IF i = 0 THEN <<>>
        ELSE IF Keep(i) THEN Append(F[i - 1], s[i]) ELSE F[i - 1]
  IN F[Len(s)]

\* the calendar date (a day number) of a timestamp: DATE(practiced_at),
\* toISOString().split('T')[0]
DateOf(t) == t \div TicksPerDay

Init ==
  /\ host \in Hosts
  /\ skills = <<>>
  /\ logs = <<>>
  /\ now = 0
  /\ nextSkillId = 1
  /\ nextLogId = 1
  /\ recentIds = [skill |-> {}, log |-> {}]
  /\ resp = NoResp

\* the clock advances; numbers drawn by generateId in an earlier tick are
\* out of reach of Date.now() + random
Tick ==
  /\ now < MaxNow
  /\ now' = now + 1
  /\ recentIds' = [skill |-> {}, log |-> {}]
  /\ resp' = NoResp
  /\ UNCHANGED <<host, skills, logs, nextSkillId, nextLogId>>

\* ----------------------------------------------------------- server writes

\* POST /api/skills
SrvCreateSkill(name, decay_rate, target_frequency_days) ==
  /\ host = "server"
  /\ IF name = ""
     THEN /\ resp' = [op |-> "createSkill", status |-> 400]
          /\ UNCHANGED <<skills, nextSkillId>>
     ELSE /\ Len(skills) < MaxSkills
          /\ skills' = Append(skills,
               [id |-> nextSkillId,
                name |-> name,
                decay_rate |-> OrDefault(decay_rate, DefaultDecayRate),
                target_frequency_days |-> OrDefault(target_frequency_days, DefaultTargetDays),
                archived |-> 0])
          /\ nextSkillId' = nextSkillId + 1
          /\ resp' = [op |-> "createSkill", status |-> 200]
  /\ UNCHANGED <<host, logs, now, nextLogId, recentIds>>

\* the partial updates a caller sends: every field optional
Updates ==
  [name : {Null}, decay_rate : {Null}, target_frequency_days : {Null},
   archived : {Some(0), Some(1)}]

\* PUT /api/skills/:id
SrvUpdateSkill(id, u) ==
  /\ host = "server"
  /\ skills' = [i \in DOMAIN skills |->
       IF skills[i].id = id
       THEN [id |-> skills[i].id,
             name |-> Coalesce(u.name, skills[i].name),
             decay_rate |-> Coalesce(u.decay_rate, skills[i].decay_rate),
             target_frequency_days |-> Coalesce(u.target_frequency_days, skills[i].target_frequency_days),
             archived |-> Coalesce(u.archived, skills[i].archived)]
       ELSE skills[i]]
  /\ resp' = [op |-> "updateSkill", status |-> 200,
              request |-> [id |-> id, updates |-> u]]
  /\ UNCHANGED <<host, logs, now, nextSkillId, nextLogId, recentIds>>

\* POST /api/skills/:id/practice
SrvLogPractice(id, duration_minutes, quality, practiced_at) ==
  /\ host = "server"
  /\ LET q == IF OrDefault(quality, 0) = 0 THEN Null ELSE quality IN
       \* quality INTEGER CHECK(quality >= 1 AND quality <= 5): a NULL passes
       IF ~IsNull(q) /\ ~(Val(q) >= 1 /\ Val(q) <= 5)
       THEN /\ resp' = [op |-> "logPractice", status |-> 500]
            /\ UNCHANGED <<logs, nextLogId>>
       ELSE /\ Len(logs) < MaxLogs
            /\ logs' = Append(logs,
                 [id |-> nextLogId,
                  skill_id |-> id,
                  practiced_at |-> Coalesce(practiced_at, now),
                  duration_minutes |-> IF OrDefault(duration_minutes, 0) = 0 THEN Null ELSE duration_minutes,
                  quality |-> q])
            /\ nextLogId' = nextLogId + 1
            /\ resp' = [op |-> "logPractice", status |-> 200]
  /\ UNCHANGED <<host, skills, now, nextSkillId, recentIds>>

\* POST /api/skills/:id/quick-practice
SrvQuickPractice(id) ==
  /\ host = "server"
  /\ Len(logs) < MaxLogs
  /\ logs' = Append(logs,
       [id |-> nextLogId, skill_id |-> id, practiced_at |-> now,
        duration_minutes |-> Null, quality |-> Null])
  /\ nextLogId' = nextLogId + 1
  /\ resp' = [op |-> "quickPractice", status |-> 200]
  /\ UNCHANGED <<host, skills, now, nextSkillId, recentIds>>

\* ----------------------------------------------------------- client writes

\* generateId: Date.now() + Math.floor(Math.random() * 1000).  The numbers a
\* call can return: one never drawn before (next counts them), or one
\* already drawn in this tick (two calls less than a second apart can draw
\* the same number).  Skill ids and log ids are never compared with each
\* other, so the draws for the two are kept apart.
generateId(next, recent) == {next} \cup recent

\* addSkill
addSkill(name, decay_rate, target_frequency_days, newId) ==
  /\ host = "client"
  /\ Len(skills) < MaxSkills
  /\ newId \in generateId(nextSkillId, recentIds.skill)
  /\ nextSkillId' = IF newId = nextSkillId THEN nextSkillId + 1 ELSE nextSkillId
  /\ recentIds' = [recentIds EXCEPT !.skill = @ \cup {newId}]
  /\ skills' = Append(skills,
       [id |-> newId,
        name |-> name,
        decay_rate |-> decay_rate,
        target_frequency_days |-> target_frequency_days,
        archived |-> 0])
  /\ resp' = [op |-> "addSkill"]
  /\ UNCHANGED <<host, logs, now, nextLogId>>

\* a spread that takes every field from the updates, supplied or not
SpreadAll(s, u) ==
  [id |-> s.id,
   name |-> Coalesce(u.name, ""),
   decay_rate |-> Coalesce(u.decay_rate, DefaultDecayRate),
   target_frequency_days |-> Coalesce(u.target_frequency_days, DefaultTargetDays),
   archived |-> Coalesce(u.archived, 0)]

\* { ...skills[index], ...updates }
Spread(s, u) ==
  [id |-> s.id,
   name |-> Coalesce(u.name, s.name),
   decay_rate |-> Coalesce(u.decay_rate, s.decay_rate),
   target_frequency_days |-> Coalesce(u.target_frequency_days, s.target_frequency_days),
   archived |-> Coalesce(u.archived, s.archived)]

\* findIndex: the first index whose skill has the id, 0 when none
FindIndex(id) ==
  IF \E i \in DOMAIN skills : skills[i].id = id
  THEN CHOOSE i \in DOMAIN skills :
         /\ skills[i].id = id
         /\ \A k \in 1..(i - 1) : skills[k].id # id
  ELSE 0

\* updateSkill
updateSkill(id, u) ==
  /\ host = "client"
  /\ LET index == FindIndex(id) IN
       IF index # 0
       THEN skills' = [skills EXCEPT ![index] = Spread(skills[index], u)]
       ELSE UNCHANGED skills
  /\ resp' = [op |-> "updateSkill", request |-> [id |-> id, updates |-> u]]
  /\ UNCHANGED <<host, logs, now, nextSkillId, nextLogId, recentIds>>

\* addPracticeLog
addPracticeLog(skill_id, duration_minutes, quality, newId) ==
  /\ host = "client"
  /\ Len(logs) < MaxLogs
  /\ newId \in generateId(nextLogId, recentIds.log)
  /\ nextLogId' = IF newId = nextLogId THEN nextLogId + 1 ELSE nextLogId
  /\ recentIds' = [recentIds EXCEPT !.log = @ \cup {newId}]
  /\ logs' = Append(logs,
       [id |-> newId,
        skill_id |-> skill_id,
        practiced_at |-> now,
        duration_minutes |-> Some(duration_minutes),
        quality |-> Some(quality)])
  /\ resp' = [op |-> "addPracticeLog"]
  /\ UNCHANGED <<host, skills, now, nextSkillId>>

\* quickPractice
quickPractice(skill_id, newId) == addPracticeLog(skill_id, QuickDuration, QuickQuality, newId)

\* ------------------------------------------------------------ arithmetic

\* an exact fraction n/d, d > 0
Frac(n, d) == [n |-> n, d |-> d]
FracLE(a, b) == a.n * b.d <= b.n * a.d
FracLT(a, b) == a.n * b.d < b.n * a.d
FracEQ(a, b) == a.n * b.d = b.n * a.d
Tenths(k) == Frac(k, 10)

MaxOf(S) == CHOOSE x \in S : \A y \in S : y <= x

\* the sum of F(i) over the indices i of s that Keep(i) selects
SumIdx(s, Keep(_), F(_)) ==
  LET G[i \in 0..Len(s)] ==
        IF i = 0 THEN 0
        ELSE G[i - 1] + (IF Keep(i) THEN F(i) ELSE 0)
  IN G[Len(s)]

CountIdx(s, Keep(_)) == Cardinality({i \in DOMAIN s : Keep(i)})

\* Array.prototype.sort with a comparator, and ORDER BY: a stable sort.
\* Before(a, b) holds when a has to come strictly before b.
StableSort(s, Before(_, _)) ==
  LET Insert(sorted, x) ==
        LET later == {i \in DOMAIN sorted : Before(x, sorted[i])}
            pos == IF later = {} THEN Len(sorted) + 1
                   ELSE CHOOSE i \in later : \A k \in later : i <= k
        IN SubSeq(sorted, 1, pos - 1) \o <<x>> \o SubSeq(sorted, pos, Len(sorted))
      F[i \in 0..Len(s)] == IF i = 0 THEN <<>> ELSE Insert(F[i - 1], s[i])
  IN F[Len(s)]

\* the elements of a finite set of integers, ascending / descending
RECURSIVE Ascending(_)
Ascending(S) ==
  IF S = {} THEN <<>>
  ELSE LET m == MaxOf(S) IN Append(Ascending(S \ {m}), m)

RECURSIVE Descending(_)
Descending(S) ==
  IF S = {} THEN <<>>
  ELSE LET m == MaxOf(S) IN <<m>> \o Descending(S \ {m})

Today == DateOf(now)
LogDates == {DateOf(logs[i].practiced_at) : i \in DOMAIN logs}
LogsOn(d) == {i \in DOMAIN logs : DateOf(logs[i].practiced_at) = d}
NameRank(n) == CASE n = "a" -> 1 [] n = "b" -> 2 [] OTHER -> 0

\* ------------------------------------------------------------ server reads

\* (SELECT practiced_at FROM practice_logs WHERE skill_id = s.id
\*  ORDER BY practiced_at DESC LIMIT 1)
SrvLastPracticed(id) ==
  LET ts == {logs[i].practiced_at : i \in {k \in DOMAIN logs : logs[k].skill_id = id}}
  IN IF ts = {} THEN Null ELSE Some(MaxOf(ts))

\* Math.floor((now - lastPracticed) / (1000 * 60 * 60 * 24)), or null
SrvDaysSince(lastPracticed) ==
  IF IsNull(lastPracticed) THEN Null
  ELSE Some((now - Val(lastPracticed)) \div TicksPerDay)

\* overdueRatio * skill.decay_rate, or null
SrvDecayScore(skill, daysSince) ==
  LET targetDays == IF skill.target_frequency_days = 0 THEN DefaultTargetDays
                    ELSE skill.target_frequency_days
  IN IF IsNull(daysSince) THEN Null
     ELSE Some(Frac(Val(daysSince) * skill.decay_rate, targetDays * 10))

\* SrvHealth without the test decayScore !== null: null <= 0.7 holds in
\* JavaScript
SrvHealthNullCompared(decayScore) ==
  IF IsNull(decayScore) THEN "excellent"
  ELSE IF FracLE(Val(decayScore), Tenths(7)) THEN "excellent"
  ELSE IF FracLE(Val(decayScore), Tenths(10)) THEN "good"
  ELSE IF FracLE(Val(decayScore), Tenths(15)) THEN "fair"
  ELSE IF FracLE(Val(decayScore), Tenths(30)) THEN "rusty"
  ELSE "critical"

\* the threshold ladder of GET /api/skills and GET /api/dashboard
SrvHealth(decayScore) ==
  IF IsNull(decayScore) THEN "unknown"
  ELSE IF FracLE(Val(decayScore), Tenths(7)) THEN "excellent"
  ELSE IF FracLE(Val(decayScore), Tenths(10)) THEN "good"
  ELSE IF FracLE(Val(decayScore), Tenths(15)) THEN "fair"
  ELSE IF FracLE(Val(decayScore), Tenths(30)) THEN "rusty"
  ELSE "critical"

\* SUM(duration_minutes) over the logs at the indices I: null when no
\* duration is set
SqlSumMinutes(I) ==
  IF \A i \in I : IsNull(logs[i].duration_minutes) THEN Null
  ELSE Some(SumIdx(logs, LAMBDA i : i \in I /\ ~IsNull(logs[i].duration_minutes),
                   LAMBDA i : Val(logs[i].duration_minutes)))

\* AVG(quality) over the logs at the indices I: null when no quality is set
SqlAvgQuality(I) ==
  LET rated == {i \in I : ~IsNull(logs[i].quality)}
  IN IF rated = {} THEN Null
     ELSE Some(Frac(SumIdx(logs, LAMBDA i : i \in rated, LAMBDA i : Val(logs[i].quality)),
                    Cardinality(rated)))

SrvEnrich(skill) ==
  LET lastPracticed == SrvLastPracticed(skill.id)
      daysSince == SrvDaysSince(lastPracticed)
      decayScore == SrvDecayScore(skill, daysSince)
      mine == {i \in DOMAIN logs : logs[i].skill_id = skill.id}
  IN [id |-> skill.id, name |-> skill.name, decay_rate |-> skill.decay_rate,
      target_frequency_days |-> skill.target_frequency_days,
      archived |-> skill.archived,
      last_practiced |-> lastPracticed,
      total_sessions |-> Cardinality(mine),
      total_minutes |-> SqlSumMinutes(mine),
      days_since_practice |-> daysSince,
      decay_score |-> decayScore,
      health |-> SrvHealth(decayScore)]

\* the SELECT without its WHERE s.archived = ?
SrvSkillsUnfiltered(a) == skills

\* SELECT ... FROM skills s WHERE s.archived = ?
SrvSkillsWhereArchived(a) == SelectSeq(skills, LAMBDA s : s.archived = a)

MapSeq(s, F(_)) == [i \in DOMAIN s |-> F(s[i])]

\* GET /api/skills
SrvListSkills(includeArchived) ==
  MapSeq(StableSort(SrvSkillsWhereArchived(IF includeArchived THEN 1 ELSE 0),
                    LAMBDA a, b : NameRank(a.name) < NameRank(b.name)),
         SrvEnrich)

SrvGetSkills(includeArchived) ==
  /\ host = "server"
  /\ resp' = [op |-> "skills", archived |-> includeArchived,
              body |-> SrvListSkills(includeArchived)]
  /\ UNCHANGED <<host, skills, logs, now, nextSkillId, nextLogId, recentIds>>

\* the rows pushed to decayingSkills by the forEach of GET /api/dashboard
SrvDecaying ==
  LET active == SrvSkillsWhereArchived(0)
      row(s) == LET d == SrvDaysSince(SrvLastPracticed(s.id))
                    sc == SrvDecayScore(s, d)
                IN [id |-> s.id, name |-> s.name, days_since |-> d,
                    decay_score |-> sc, health |-> SrvHealth(sc)]
      rows == MapSeq(active, row)
  IN SelectSeq(rows, LAMBDA r : r.health \in {"rusty", "critical"})

\* the counters of the forEach of GET /api/dashboard
\* SrvBreakdown that has no entry to count a never practised skill in
SrvBreakdownKnown ==
  LET active == SrvSkillsWhereArchived(0)
      h(i) == SrvHealth(SrvDecayScore(active[i], SrvDaysSince(SrvLastPracticed(active[i].id))))
  IN [c \in {"excellent", "good", "fair", "rusty", "critical", "unknown"} |->
        IF c = "unknown" THEN 0 ELSE Cardinality({i \in DOMAIN active : h(i) = c})]

SrvBreakdown ==
  LET active == SrvSkillsWhereArchived(0)
      h(i) == SrvHealth(SrvDecayScore(active[i], SrvDaysSince(SrvLastPracticed(active[i].id))))
  IN [c \in {"excellent", "good", "fair", "rusty", "critical", "unknown"} |->
        Cardinality({i \in DOMAIN active : h(i) = c})]

\* SELECT DATE(practiced_at), COUNT(*), SUM(duration_minutes) ...
\* WHERE practiced_at >= DATE('now', '-7 days') GROUP BY DATE(practiced_at)
\* ORDER BY date DESC
SrvRecentActivity ==
  MapSeq(Descending({d \in LogDates : d >= Today - RecentDays}),
         LAMBDA d : [date |-> d, sessions |-> Cardinality(LogsOn(d)),
                     total_minutes |-> SqlSumMinutes(LogsOn(d))])

\* the streak loop of GET /api/dashboard
SrvCurrentStreak ==
  LET dates == {d \in LogDates : d >= Today - StreakWindow}
      start == IF LogsOn(Today) = {} THEN Today - 1 ELSE Today
      \* the loop leaves at the first i with start - i not in dates, or at 30
      streak == CHOOSE k \in 0..StreakWindow :
                  /\ \A i \in 0..(k - 1) : (start - i) \in dates
                  /\ k = StreakWindow \/ (start - k) \notin dates
  IN IF dates = {} THEN 0 ELSE streak

SrvDashboard ==
  [total_skills |-> Len(SrvSkillsWhereArchived(0)),
   health_breakdown |-> SrvBreakdown,
   decaying_skills |-> StableSort(SrvDecaying,
       LAMBDA a, b : FracLT(Val(b.decay_score), Val(a.decay_score))),
   recent_activity |-> SrvRecentActivity,
   practiced_today |-> LogsOn(Today) # {},
   current_streak |-> SrvCurrentStreak,
   total_practice_days |-> Cardinality(LogDates)]

\* GET /api/dashboard
SrvGetDashboard ==
  /\ host = "server"
  /\ resp' = [op |-> "dashboard", body |-> SrvDashboard]
  /\ UNCHANGED <<host, skills, logs, now, nextSkillId, nextLogId, recentIds>>

\* the alert pushed for one skill by GET /api/alerts, if any
SrvAlertFor(skill) ==
  LET daysSince == SrvDaysSince(SrvLastPracticed(skill.id))
  IN IF IsNull(daysSince)
     THEN <<[skill_id |-> skill.id, skill_name |-> skill.name,
             type |-> "never_practiced", severity |-> "info", days_since |-> Null]>>
     ELSE IF Val(daysSince) > skill.target_frequency_days * 3
     THEN <<[skill_id |-> skill.id, skill_name |-> skill.name,
             type |-> "critical_decay", severity |-> "critical", days_since |-> daysSince]>>
     ELSE IF Val(daysSince) > skill.target_frequency_days
     THEN <<[skill_id |-> skill.id, skill_name |-> skill.name,
             type |-> "overdue", severity |-> "warning", days_since |-> daysSince]>>
     ELSE <<>>

\* the concatenation of the sequences F(s[1]), F(s[2]), ...
FlatMap(s, F(_)) ==
  LET G[i \in 0..Len(s)] == IF i = 0 THEN <<>> ELSE G[i - 1] \o F(s[i])
  IN G[Len(s)]

\* const severityOrder = { critical: 0, warning: 1, info: 2 }
severityOrder(sev) ==
  CASE sev = "critical" -> 0 [] sev = "warning" -> 1 [] sev = "info" -> 2

SrvAlerts ==
  StableSort(FlatMap(SrvSkillsWhereArchived(0), SrvAlertFor),
             LAMBDA a, b : severityOrder(a.severity) < severityOrder(b.severity))

\* GET /api/alerts
SrvGetAlerts ==
  /\ host = "server"
  /\ resp' = [op |-> "alerts", body |-> SrvAlerts]
  /\ UNCHANGED <<host, skills, logs, now, nextSkillId, nextLogId, recentIds>>

\* GET /api/history?days=N
SrvHistory(daysParam) ==
  LET days == OrDefault(daysParam, DefaultHistoryDays)
      recent == {i \in DOMAIN logs : DateOf(logs[i].practiced_at) >= Today - days}
  IN [dailyStats |->
        MapSeq(Ascending({d \in LogDates : d >= Today - days}),
               LAMBDA d : [date |-> d,
                           sessions |-> Cardinality(LogsOn(d)),
                           skills_practiced |-> Cardinality({logs[i].skill_id : i \in LogsOn(d)}),
                           total_minutes |-> SqlSumMinutes(LogsOn(d)),
                           avg_quality |-> SqlAvgQuality(LogsOn(d))]),
      skillTrends |->
        MapSeq(SrvSkillsWhereArchived(0),
               LAMBDA s : [id |-> s.id, name |-> s.name,
                           recent_sessions |-> Cardinality({i \in recent : logs[i].skill_id = s.id}),
                           last_practiced |-> SrvLastPracticed(s.id)]),
      days |-> days]

SrvGetHistory(daysParam) ==
  /\ host = "server"
  /\ resp' = [op |-> "history", window |-> OrDefault(daysParam, DefaultHistoryDays),
              body |-> SrvHistory(daysParam)]
  /\ UNCHANGED <<host, skills, logs, now, nextSkillId, nextLogId, recentIds>>

\* ------------------------------------------------------------ client reads

\* daysBetween: Math.floor(Math.abs((date1 - date2) / oneDay))
daysBetween(t1, t2) == (IF t1 >= t2 THEN t1 - t2 ELSE t2 - t1) \div TicksPerDay

\* skillLogs.sort(newest first)[0]?.practiced_at || null
LastPracticed(id) ==
  LET ts == {logs[i].practiced_at : i \in {k \in DOMAIN logs : logs[k].skill_id = id}}
  IN IF ts = {} THEN Null ELSE Some(MaxOf(ts))

\* Math.min(ratio * skill.decay_rate * 100, 100)
DecayScore(skill, daysSince) ==
  LET raw == Frac(daysSince * skill.decay_rate * 10, skill.target_frequency_days)
  IN IF FracLE(raw, Frac(100, 1)) THEN raw ELSE Frac(100, 1)

\* the ladder of getSkillsWithStats, on ratio = daysSince / target_frequency_days
Health(skill, daysSince) ==
  LET ratio == Frac(daysSince, skill.target_frequency_days)
  IN \* 0 / 0 is NaN, and every comparison with NaN is false
     IF ratio.n = 0 /\ ratio.d = 0 THEN "critical"
     ELSE IF FracLE(ratio, Tenths(5)) THEN "excellent"
     ELSE IF FracLE(ratio, Tenths(10)) THEN "good"
     ELSE IF FracLE(ratio, Tenths(15)) THEN "fair"
     ELSE IF FracLE(ratio, Tenths(25)) THEN "rusty"
     ELSE "critical"

\* reduce((sum, l) => sum + (l.duration_minutes || 0), 0) over the logs at I
SumMinutes(I) ==
  SumIdx(logs, LAMBDA i : i \in I, LAMBDA i : OrDefault(logs[i].duration_minutes, 0))

Stats(skill) ==
  LET mine == {i \in DOMAIN logs : logs[i].skill_id = skill.id}
      lastPracticed == LastPracticed(skill.id)
      daysSince == IF IsNull(lastPracticed) THEN Null
                   ELSE Some(daysBetween(now, Val(lastPracticed)))
  IN [id |-> skill.id, name |-> skill.name, decay_rate |-> skill.decay_rate,
      target_frequency_days |-> skill.target_frequency_days,
      archived |-> skill.archived,
      last_practiced |-> lastPracticed,
      total_sessions |-> Cardinality(mine),
      total_minutes |-> Some(SumMinutes(mine)),
      days_since_practice |-> daysSince,
      decay_score |-> IF IsNull(daysSince) THEN Null
                      ELSE Some(DecayScore(skill, Val(daysSince))),
      health |-> IF IsNull(daysSince) THEN "unknown" ELSE Health(skill, Val(daysSince))]

\* getSkillsWithStats: getSkills().filter(s => !s.archived).map(...)
SkillsWithStats == MapSeq(SelectSeq(skills, LAMBDA s : s.archived = 0), Stats)

\* getSkillsWithStats that sorts the stored logs themselves, newest first,
\* and saves them
getSkillsWithStatsSorting ==
  /\ host = "client"
  /\ resp' = [op |-> "skills", archived |-> FALSE, body |-> SkillsWithStats]
  /\ logs' = StableSort(logs, LAMBDA a, b : b.practiced_at < a.practiced_at)
  /\ UNCHANGED <<host, skills, now, nextSkillId, nextLogId, recentIds>>

getSkillsWithStats ==
  /\ host = "client"
  /\ resp' = [op |-> "skills", archived |-> FALSE, body |-> SkillsWithStats]
  /\ UNCHANGED <<host, skills, logs, now, nextSkillId, nextLogId, recentIds>>

\* the streak loop of getDashboard
CurrentStreak ==
  LET dates == Descending(LogDates)
      \* dates[0] === today starts the count; the loop leaves at the first
      \* i with dates[i] not the expected day, or at the end of dates
      streak == CHOOSE k \in 0..Len(dates) :
                  /\ \A i \in 1..k : dates[i] = Today - (i - 1)
                  /\ k = Len(dates) \/ dates[k + 1] # Today - k
  IN streak

\* (b.days_since_practice || 999) - (a.days_since_practice || 999)
DaysOr999(s) == OrDefault(s.days_since_practice, 999)

Dashboard ==
  LET stats == SkillsWithStats
  IN [total_skills |-> Len(stats),
      health_breakdown |->
        [c \in {"excellent", "good", "fair", "rusty", "critical", "unknown"} |->
           Cardinality({i \in DOMAIN stats : stats[i].health = c})],
      decaying_skills |->
        StableSort(SelectSeq(stats, LAMBDA s : s.health \in {"fair", "rusty", "critical"}),
                   LAMBDA a, b : DaysOr999(b) < DaysOr999(a)),
      recent_activity |->
        [k \in 1..RecentDays |->
           LET d == Today - (RecentDays - k)
           IN [date |-> d, sessions |-> Cardinality(LogsOn(d)),
               total_minutes |-> Some(SumMinutes(LogsOn(d)))]],
      practiced_today |-> LogsOn(Today) # {},
      current_streak |-> CurrentStreak,
      total_practice_days |-> Cardinality(LogDates)]

getDashboard ==
  /\ host = "client"
  /\ resp' = [op |-> "dashboard", body |-> Dashboard]
  /\ UNCHANGED <<host, skills, logs, now, nextSkillId, nextLogId, recentIds>>

\* const priority = { critical: 0, rusty: 1, fair: 2 };  priority[x] || 3
priorityOr3(sev) ==
  LET priority == CASE sev = "critical" -> 0 [] sev = "rusty" -> 1
                    [] sev = "fair" -> 2 [] OTHER -> 0
  IN IF priority = 0 THEN 3 ELSE priority

Alerts ==
  StableSort(
    MapSeq(SelectSeq(SkillsWithStats, LAMBDA s : s.health \in {"fair", "rusty", "critical"}),
           LAMBDA s : [skill_id |-> s.id, skill_name |-> s.name, type |-> "decay",
                       severity |-> s.health, days_since |-> s.days_since_practice]),
    LAMBDA a, b : priorityOr3(a.severity) < priorityOr3(b.severity))

getAlerts ==
  /\ host = "client"
  /\ resp' = [op |-> "alerts", body |-> Alerts]
  /\ UNCHANGED <<host, skills, logs, now, nextSkillId, nextLogId, recentIds>>

\* Math.round(sum / length * 10) / 10 of the qualities that are set, else 0
AvgQuality(I) ==
  LET rated == {i \in I : OrDefault(logs[i].quality, 0) # 0}
      total == SumIdx(logs, LAMBDA i : i \in rated, LAMBDA i : Val(logs[i].quality))
      n == Cardinality(rated)
  IN IF n = 0 THEN Some(Frac(0, 1))
     ELSE Some(Tenths((2 * total * 10 + n) \div (2 * n)))

History(days) ==
  LET cutoff == now - days * TicksPerDay
      recentLogs == {i \in DOMAIN logs : logs[i].practiced_at >= cutoff}
      stats == SkillsWithStats
  IN [dailyStats |->
        [k \in 1..days |->
           LET d == Today - (days - k)
               day == {i \in recentLogs : DateOf(logs[i].practiced_at) = d}
           IN [date |-> d,
               sessions |-> Cardinality(day),
               skills_practiced |-> Cardinality({logs[i].skill_id : i \in day}),
               total_minutes |-> Some(SumMinutes(day)),
               avg_quality |-> AvgQuality(day)]],
      skillTrends |->
        MapSeq(stats,
               LAMBDA s : [id |-> s.id, name |-> s.name,
                           recent_sessions |-> Cardinality({i \in recentLogs : logs[i].skill_id = s.id}),
                           last_practiced |-> s.last_practiced]),
      days |-> days]

getHistory(days) ==
  /\ host = "client"
  /\ resp' = [op |-> "history", window |-> days, body |-> History(days)]
  /\ UNCHANGED <<host, skills, logs, now, nextSkillId, nextLogId, recentIds>>

\* ------------------------------------------------------------------------
\* What the claims speak of, stated on the store alone
\* ------------------------------------------------------------------------

HasLog(id) == \E i \in DOMAIN logs : logs[i].skill_id = id

\* whole days elapsed since the newest log of skill id (HasLog(id) assumed)
ElapsedDays(id) ==
  (now - MaxOf({logs[i].practiced_at : i \in {k \in DOMAIN logs : logs[k].skill_id = id}}))
    \div TicksPerDay

\* (days_since / target_frequency_days) x decay_rate of a listed skill e
RawScore(e) == Frac(ElapsedDays(e.id) * e.decay_rate, e.target_frequency_days * 10)

\* the category the thresholds 0.7, 1.0, 1.5, 3.0 give a score
CategoryOf(score) ==
  IF FracLE(score, Tenths(7)) THEN "excellent"
  ELSE IF FracLE(score, Tenths(10)) THEN "good"
  ELSE IF FracLE(score, Tenths(15)) THEN "fair"
  ELSE IF FracLE(score, Tenths(30)) THEN "rusty"
  ELSE "critical"

Active == SelectSeq(skills, LAMBDA s : s.archived = 0)

\* how often x occurs in the sequence s
Occurs(s, x) == Cardinality({i \in DOMAIN s : s[i] = x})
SameBag(s, t) ==
  /\ Len(s) = Len(t)
  /\ \A x \in Range(s) \cup Range(t) : Occurs(s, x) = Occurs(t, x)

\* C1: in a listing of skills with health, every non-archived skill that has
\* a practice log is reported with the category its decay_score
\* (days_since / target_frequency_days) x decay_rate falls in: excellent up to
\* 0.7, good up to 1.0, fair up to 1.5, rusty up to 3.0, critical above.
C1_HealthByDecayScore ==
  resp.op = "skills" =>
    \A i \in DOMAIN resp.body :
      LET e == resp.body[i] IN
        (e.archived = 0 /\ HasLog(e.id)) => e.health = CategoryOf(RawScore(e))

\* C1 on the server alone
C1_OnServer == host = "server" => C1_HealthByDecayScore

\* C2: the decay_score reported for a skill that has a practice log is
\* (days_since / target_frequency_days) x decay_rate, neither scaled nor
\* capped.
C2_RawDecayScore ==
  resp.op = "skills" =>
    \A i \in DOMAIN resp.body :
      LET e == resp.body[i] IN
        HasLog(e.id) => /\ ~IsNull(e.decay_score)
                        /\ FracEQ(Val(e.decay_score), RawScore(e))

\* C2 on the server alone
C2_OnServer == host = "server" => C2_RawDecayScore

\* C3: a listing reports every skill that has no practice log with health
\* unknown, decay_score null and days_since null, and lists each such skill
\* of the archived state asked for.
C3_NeverPractised ==
  resp.op = "skills" =>
    /\ \A i \in DOMAIN resp.body :
         LET e == resp.body[i] IN
           (~HasLog(e.id) /\ e.decay_rate > 0 /\ e.target_frequency_days >= 1) =>
             /\ e.health = "unknown"
             /\ IsNull(e.decay_score)
             /\ IsNull(e.days_since_practice)
    /\ \A k \in DOMAIN skills :
         (~HasLog(skills[k].id) /\ (skills[k].archived = 1) = resp.archived) =>
           \E i \in DOMAIN resp.body : resp.body[i].id = skills[k].id

\* C3 witness: a listing on each kind of store entry, one skill never
\* practised next to one that was practised
C3_Witness ==
  /\ resp.op = "skills"
  /\ \E i, j \in DOMAIN resp.body :
       /\ ~HasLog(resp.body[i].id)
       /\ resp.body[i].health = "unknown"
       /\ HasLog(resp.body[j].id)
       /\ resp.body[j].health # "unknown"

\* the alert the rule of C4 gives a skill, as a sequence of zero or one
RuleAlert(s) ==
  IF ~HasLog(s.id)
  THEN <<[skill_id |-> s.id, type |-> "never_practiced", severity |-> "info"]>>
  ELSE IF ElapsedDays(s.id) > 3 * s.target_frequency_days
  THEN <<[skill_id |-> s.id, type |-> "critical_decay", severity |-> "critical"]>>
  ELSE IF ElapsedDays(s.id) > s.target_frequency_days
  THEN <<[skill_id |-> s.id, type |-> "overdue", severity |-> "warning"]>>
  ELSE <<>>

AlertKey(a) == [skill_id |-> a.skill_id, type |-> a.type, severity |-> a.severity]

\* C4: the alert list holds, for every non-archived skill, exactly the alert
\* the rule gives it (never_practiced/info, critical_decay/critical,
\* overdue/warning or none), and nothing else.
C4_AlertRule ==
  resp.op = "alerts" =>
    SameBag(MapSeq(resp.body, AlertKey), FlatMap(Active, RuleAlert))

\* C4 on the server alone
C4_OnServer == host = "server" => C4_AlertRule

\* the urgency rank of a severity: critical, then warning (rusty and fair
\* are its equivalents), then info
UrgencyRank(sev) ==
  CASE sev = "critical" -> 0
    [] sev \in {"warning", "rusty", "fair"} -> 1
    [] OTHER -> 2

\* the first position in the store of a skill with the id
StorePos(id) == CHOOSE k \in DOMAIN skills :
                  /\ skills[k].id = id
                  /\ \A m \in 1..(k - 1) : skills[m].id # id

\* ids identify the stored skills (the order of "the skill an alert or an
\* entry was generated from" is meant for such stores)
UniqueIds == \A k, m \in DOMAIN skills : skills[k].id = skills[m].id => k = m

\* C5: in the alert list (of a store whose ids identify its skills) no alert
\* comes before one of a strictly more urgent severity, and alerts of the
\* same severity are in the order of their skills.
C5_AlertOrder ==
  (resp.op = "alerts" /\ UniqueIds) =>
    \A i, j \in DOMAIN resp.body :
      i < j =>
        /\ UrgencyRank(resp.body[i].severity) <= UrgencyRank(resp.body[j].severity)
        /\ resp.body[i].severity = resp.body[j].severity =>
             StorePos(resp.body[i].skill_id) <= StorePos(resp.body[j].skill_id)

\* C5 on the server alone
C5_OnServer == host = "server" => C5_AlertOrder

\* the health the host's own listing reports for a stored skill
HostHealth(s) == IF host = "server" THEN SrvEnrich(s).health ELSE Stats(s).health

Ids(s) == MapSeq(s, LAMBDA e : e.id)

\* C6: decaying_skills holds exactly the non-archived skills whose health is
\* fair, rusty or critical.
C6_DecayingMembers ==
  resp.op = "dashboard" =>
    SameBag(Ids(resp.body.decaying_skills),
            Ids(SelectSeq(Active, LAMBDA s : HostHealth(s) \in {"fair", "rusty", "critical"})))

\* C6 on the client alone
C6_OnClient == host = "client" => C6_DecayingMembers

\* the position among the non-archived skills of the i-th decaying entry
\* with this id (entries of one id keep their store order)
ActivePos(id) == CHOOSE k \in DOMAIN Active :
                   /\ Active[k].id = id
                   /\ \A m \in 1..(k - 1) : Active[m].id # id

\* C7: decaying_skills (of a store whose ids identify its skills) is in
\* descending order of decay_score, entries of equal decay_score in their
\* original order.
C7_DecayingOrder ==
  (resp.op = "dashboard" /\ UniqueIds) =>
    LET d == resp.body.decaying_skills IN
      \A i, j \in DOMAIN d :
        i < j =>
          /\ FracLE(Val(d[j].decay_score), Val(d[i].decay_score))
          /\ FracEQ(Val(d[j].decay_score), Val(d[i].decay_score)) =>
               ActivePos(d[i].id) <= ActivePos(d[j].id)

\* C7 on the server alone
C7_OnServer == host = "server" => C7_DecayingOrder

\* the minutes logged on day d, a log without duration counting 0
MinutesOn(d) == SumIdx(logs, LAMBDA i : i \in LogsOn(d),
                       LAMBDA i : OrDefault(logs[i].duration_minutes, 0))

\* C8: recent_activity has exactly 7 entries, one for each day from today-6
\* to today and none for another day, each with that day's number of
\* sessions and total minutes (0 and 0 on a day without practice).
C8_RecentActivity ==
  resp.op = "dashboard" =>
    LET ra == resp.body.recent_activity IN
      /\ Len(ra) = 7
      /\ {ra[k].date : k \in DOMAIN ra} = (Today - 6)..Today
      /\ \A k \in DOMAIN ra :
           /\ ra[k].sessions = Cardinality(LogsOn(ra[k].date))
           /\ OrDefault(ra[k].total_minutes, 0) = MinutesOn(ra[k].date)

\* C8 on the client alone
C8_OnClient == host = "client" => C8_RecentActivity

\* C9: the history of window N has exactly N daily entries, the days
\* today-(N-1) .. today in ascending order, each with that day's number of
\* sessions (0 on a day without logs).
C9_HistoryWindow ==
  resp.op = "history" =>
    LET ds == resp.body.dailyStats
        n == resp.window
    IN /\ Len(ds) = n
       /\ \A k \in DOMAIN ds :
            /\ ds[k].date = Today - (n - k)
            /\ ds[k].sessions = Cardinality(LogsOn(ds[k].date))

\* C9 on the client alone
C9_OnClient == host = "client" => C9_HistoryWindow

\* every entry of a view stands for a stored skill that is not archived
OnlyActive(entries, IdOf(_)) ==
  \A i \in DOMAIN entries :
    \E k \in DOMAIN skills : skills[k].id = IdOf(entries[i]) /\ skills[k].archived = 0

BreakdownTotal(hb) ==
  hb["excellent"] + hb["good"] + hb["fair"] + hb["rusty"] + hb["critical"] + hb["unknown"]

\* no archived skill in the listing asked without archived, in the
\* dashboard's counts and decaying_skills, or among the alerts
C10_Views ==
  /\ (resp.op = "skills" /\ ~resp.archived) =>
       /\ OnlyActive(resp.body, LAMBDA e : e.id)
       /\ Len(resp.body) = Len(Active)
  /\ resp.op = "dashboard" =>
       /\ resp.body.total_skills = Len(Active)
       /\ BreakdownTotal(resp.body.health_breakdown) = Len(Active)
       /\ OnlyActive(resp.body.decaying_skills, LAMBDA e : e.id)
  /\ resp.op = "alerts" =>
       /\ OnlyActive(resp.body, LAMBDA a : a.skill_id)
       /\ Len(resp.body) <= Len(Active)

\* an update of a skill keeps every skill (same ids at the same places) and
\* every practice log
C10_UpdateKeeps ==
  resp'.op = "updateSkill" =>
    /\ Ids(skills') = Ids(skills)
    /\ logs' = logs

\* C10: an archived skill is left out of total_skills, health_breakdown,
\* decaying_skills, the alerts and the default listing; archiving a skill
\* keeps the skill and all its practice logs in the store.
C10_ArchivedExcluded == []C10_Views /\ [][C10_UpdateKeeps]_vars

\* C10 witness: a dashboard computed while an archived skill, overdue enough
\* to be rusty or critical were it active, is in the store with its log
C10_Witness ==
  /\ resp.op = "dashboard"
  /\ resp.body.total_skills = 1
  /\ resp.body.decaying_skills = <<>>
  /\ \E k \in DOMAIN skills :
       /\ skills[k].archived = 1
       /\ HasLog(skills[k].id)
       /\ \A m \in DOMAIN skills : m # k => skills[m].id # skills[k].id
       /\ HostHealth(skills[k]) \in {"rusty", "critical"}

\* ================================================= export, import, delete

\* ---------------------------------------------------------------- bounds
\* ids handed out per kind in the runs that delete and import
MaxIds == 2
\* the clock of those runs
IOMaxNow == 1

\* ------------------------------------------------------------ input sets
IONames == {"a"}
IOProfiles == {<<10, 7>>}
IOUpdates ==
  {[name |-> Null, decay_rate |-> Null, target_frequency_days |-> Null, archived |-> Some(1)],
   [name |-> Null, decay_rate |-> Some(0), target_frequency_days |-> Null, archived |-> Null]}
Modes == {"merge", "replace"}

\* a skill and a practice log as they stand in a backup file
BSkill(id, name) ==
  [id |-> id, name |-> name, decay_rate |-> 10, target_frequency_days |-> 7,
   archived |-> 0]
BLog(id, skill_id, practiced_at) ==
  [id |-> id, skill_id |-> skill_id, practiced_at |-> practiced_at,
   duration_minutes |-> Null, quality |-> Null]

\* the request bodies of an import: each array present (Some) or missing
IOBundles ==
  { [skills |-> Some(<<BSkill(1, "a")>>),
     practice_logs |-> Some(<<BLog(1, 1, 0)>>)],
    [skills |-> Some(<<BSkill(3, "a")>>),
     practice_logs |-> Some(<<BLog(3, 3, 0), BLog(4, 9, 0)>>)],
    [skills |-> Some(<<BSkill(1, "a"), BSkill(2, "a")>>),
     practice_logs |-> Some(<<BLog(1, 1, 0), BLog(2, 2, 0)>>)],
    [skills |-> Some(<<BSkill(1, "a"), BSkill(2, "b")>>),
     practice_logs |-> Some(<<BLog(1, 1, 0), BLog(2, 2, 1)>>)],
    [skills |-> Null, practice_logs |-> Null],
    [skills |-> Some(<<BSkill(1, "a")>>), practice_logs |-> Null] }

\* ---------------------------------------------------------- server deletes

\* DELETE /api/skills/:id
SrvDeleteSkill(id) ==
  /\ host = "server"
  /\ logs' = SelectSeq(logs, LAMBDA l : l.skill_id # id)
  /\ skills' = SelectSeq(skills, LAMBDA s : s.id # id)
  /\ resp' = [op |-> "deleteSkill", status |-> 200, request |-> id]
  /\ UNCHANGED <<host, now, nextSkillId, nextLogId, recentIds>>

\* DELETE /api/practice/:id
SrvDeleteLog(id) ==
  /\ host = "server"
  /\ logs' = SelectSeq(logs, LAMBDA l : l.id # id)
  /\ resp' = [op |-> "deleteLog", status |-> 200, request |-> id]
  /\ UNCHANGED <<host, skills, now, nextSkillId, nextLogId, recentIds>>

\* POST /api/skills/:id/practice for an id that is no skill's: the INSERT
\* fails on FOREIGN KEY (skill_id) REFERENCES skills(id), nothing is stored
SrvLogPracticeRejected(id) ==
  /\ host = "server"
  /\ \A i \in DOMAIN skills : skills[i].id # id
  /\ resp' = [op |-> "logPractice", status |-> 500]
  /\ UNCHANGED <<host, skills, logs, now, nextSkillId, nextLogId, recentIds>>

\* ----------------------------------------------------------- server export

\* GET /api/export: SELECT * FROM skills, SELECT * FROM practice_logs
SrvExportData(ss, ls) == [skills |-> Some(ss), practice_logs |-> Some(ls)]

SrvExport ==
  /\ host = "server"
  /\ resp' = [op |-> "export", body |-> SrvExportData(skills, logs)]
  /\ UNCHANGED <<host, skills, logs, now, nextSkillId, nextLogId, recentIds>>

\* ----------------------------------------------------------- server import

\* the map without the new id: skillIdMap[k] = k
MapPutSame(m, k, v) == [x \in (DOMAIN m) \cup {k} |-> IF x = k THEN k ELSE m[x]]

\* skillIdMap[k] = v
MapPut(m, k, v) == [x \in (DOMAIN m) \cup {k} |-> IF x = k THEN v ELSE m[x]]

\* JavaScript's `x || dflt` on a number
OrElse(x, dflt) == IF x = 0 THEN dflt ELSE x

\* JavaScript's `x || null` on a nullable number
OrNull(x) == IF IsNull(x) \/ Val(x) = 0 THEN Null ELSE x

\* SELECT id FROM skills WHERE name = ? : the index of the first such row,
\* 0 when there is none
FirstNamed(ss, name) ==
  IF \E i \in DOMAIN ss : ss[i].name = name
  THEN CHOOSE i \in DOMAIN ss :
         /\ ss[i].name = name
         /\ \A k \in 1..(i - 1) : ss[k].name # name
  ELSE 0

\* skills.forEach of POST /api/import
SrvImportSkills(ss, next, incoming, replaceAll) ==
  LET F[i \in 0..Len(incoming)] ==
        IF i = 0
        THEN [skills |-> ss, next |-> next, map |-> <<>>, imported |-> 0]
        ELSE LET acc == F[i - 1]
                 skill == incoming[i]
                 existing == FirstNamed(acc.skills, skill.name)
             IN IF ~replaceAll /\ existing # 0
                THEN [acc EXCEPT !.map = MapPut(@, skill.id, acc.skills[existing].id)]
                ELSE [skills |-> Append(acc.skills,
                        [id |-> acc.next,
                         name |-> skill.name,
                         decay_rate |-> OrElse(skill.decay_rate, DefaultDecayRate),
                         target_frequency_days |-> OrElse(skill.target_frequency_days, DefaultTargetDays),
                         archived |-> OrElse(skill.archived, 0)]),
                      next |-> acc.next + 1,
                      map |-> MapPut(acc.map, skill.id, acc.next),
                      imported |-> acc.imported + 1]
  IN F[Len(incoming)]

\* practice_logs.forEach of POST /api/import
SrvImportLogs(ls, next, skillIdMap, incoming, replaceAll) ==
  LET F[i \in 0..Len(incoming)] ==
        IF i = 0
        THEN [logs |-> ls, next |-> next, imported |-> 0]
        ELSE LET acc == F[i - 1]
                 log == incoming[i]
             IN IF log.skill_id \notin DOMAIN skillIdMap
                THEN acc
                ELSE LET newSkillId == skillIdMap[log.skill_id] IN
                  IF /\ ~replaceAll
                     /\ \E k \in DOMAIN acc.logs :
                          /\ acc.logs[k].skill_id = newSkillId
                          /\ acc.logs[k].practiced_at = log.practiced_at
                  THEN acc
                  ELSE [logs |-> Append(acc.logs,
                          [id |-> acc.next,
                           skill_id |-> newSkillId,
                           practiced_at |-> log.practiced_at,
                           duration_minutes |-> OrNull(log.duration_minutes),
                           quality |-> OrNull(log.quality)]),
                        next |-> acc.next + 1,
                        imported |-> acc.imported + 1]
  IN F[Len(incoming)]

\* the body of POST /api/import on the tables (ss, ls) and the rowid counters
SrvImportResult(ss, ls, nextS, nextL, bundle, mode) ==
  LET replaceAll == mode = "replace"
      ss0 == IF replaceAll THEN <<>> ELSE ss
      ls0 == IF replaceAll THEN <<>> ELSE ls
      sk == IF IsNull(bundle.skills)
            THEN [skills |-> ss0, next |-> nextS, map |-> <<>>, imported |-> 0]
            ELSE SrvImportSkills(ss0, nextS, Val(bundle.skills), replaceAll)
      lg == IF IsNull(bundle.practice_logs)
            THEN [logs |-> ls0, next |-> nextL, imported |-> 0]
            ELSE SrvImportLogs(ls0, nextL, sk.map, Val(bundle.practice_logs), replaceAll)
  IN [skills |-> sk.skills, logs |-> lg.logs,
      nextSkillId |-> sk.next, nextLogId |-> lg.next,
      skills_imported |-> sk.imported, logs_imported |-> lg.imported]

\* POST /api/import
SrvImport(bundle, mode) ==
  /\ host = "server"
  /\ LET r == SrvImportResult(skills, logs, nextSkillId, nextLogId, bundle, mode) IN
       /\ Len(r.skills) <= MaxSkills
       /\ Len(r.logs) <= MaxLogs
       /\ r.nextSkillId <= MaxIds + 1
       /\ r.nextLogId <= MaxIds + 1
       /\ skills' = r.skills
       /\ logs' = r.logs
       /\ nextSkillId' = r.nextSkillId
       /\ nextLogId' = r.nextLogId
       /\ resp' = [op |-> "import", status |-> 200,
                   skills_imported |-> r.skills_imported,
                   logs_imported |-> r.logs_imported,
                   mode |-> mode, request |-> bundle]
  /\ UNCHANGED <<host, now, recentIds>>

\* ----------------------------------------------- client delete and export

\* deleteSkill without its second half: the logs stay
deleteSkillKeepLogs(id) ==
  /\ host = "client"
  /\ skills' = SelectSeq(skills, LAMBDA s : s.id # id)
  /\ resp' = [op |-> "deleteSkill", request |-> id]
  /\ UNCHANGED <<host, logs, now, nextSkillId, nextLogId, recentIds>>

\* deleteSkill
deleteSkill(id) ==
  /\ host = "client"
  /\ skills' = SelectSeq(skills, LAMBDA s : s.id # id)
  /\ logs' = SelectSeq(logs, LAMBDA l : l.skill_id # id)
  /\ resp' = [op |-> "deleteSkill", request |-> id]
  /\ UNCHANGED <<host, now, nextSkillId, nextLogId, recentIds>>

\* exportAllData
ExportAllData(ss, ls) == [skills |-> Some(ss), practice_logs |-> Some(ls)]

exportAllData ==
  /\ host = "client"
  /\ resp' = [op |-> "export", body |-> ExportAllData(skills, logs)]
  /\ UNCHANGED <<host, skills, logs, now, nextSkillId, nextLogId, recentIds>>

\* ----------------------------------------------------------- client import

\* push without the test on existingIds
PushAll(existing, incoming) == existing \o incoming

\* the records of incoming whose id is in none of existing, appended in order
\* (existingIds is computed once, before the loop)
PushUnknownIds(existing, incoming) ==
  LET existingIds == {existing[i].id : i \in DOMAIN existing} IN
    existing \o SelectSeq(incoming, LAMBDA r : r.id \notin existingIds)

\* the body of importData on the stored arrays (ss, ls)
ImportResult(ss, ls, data, mode) ==
  LET ss0 == IF mode = "replace" THEN <<>> ELSE ss
      ls0 == IF mode = "replace" THEN <<>> ELSE ls
      ss1 == IF IsNull(data.skills) THEN ss0 ELSE PushUnknownIds(ss0, Val(data.skills))
      ls1 == IF IsNull(data.practice_logs) THEN ls0
             ELSE PushUnknownIds(ls0, Val(data.practice_logs))
  IN [skills |-> ss1, logs |-> ls1, skills_imported |-> Len(ss1) - Len(ss0)]

\* importData
importData(data, mode) ==
  /\ host = "client"
  /\ LET r == ImportResult(skills, logs, data, mode) IN
       /\ Len(r.skills) <= MaxSkills
       /\ Len(r.logs) <= MaxLogs
       /\ skills' = r.skills
       /\ logs' = r.logs
       /\ resp' = [op |-> "import", skills_imported |-> r.skills_imported,
                   mode |-> mode, request |-> data]
  /\ UNCHANGED <<host, now, nextSkillId, nextLogId, recentIds>>

\* ====================================== claims on export, import, delete

\* a step that is an import request, and what it was asked
IsImport == resp'.op = "import"
Incoming == resp'.request
HasArrays(b) == ~IsNull(b.skills) /\ ~IsNull(b.practice_logs)
InSkills(b) == Val(b.skills)
InLogs(b) == Val(b.practice_logs)

\* what the import started from: in replace mode the emptied store
PriorSkills == IF resp'.mode = "replace" THEN <<>> ELSE skills
PriorLogs == IF resp'.mode = "replace" THEN <<>> ELSE logs

SameSkillData(a, b) ==
  /\ a.name = b.name
  /\ a.decay_rate = b.decay_rate
  /\ a.target_frequency_days = b.target_frequency_days
  /\ a.archived = b.archived

SameLogData(a, b) ==
  /\ a.practiced_at = b.practiced_at
  /\ a.duration_minutes = b.duration_minutes
  /\ a.quality = b.quality

\* the incoming logs whose skill_id is the id of an incoming skill
Resolving(bskills, blogs) ==
  SelectSeq(blogs, LAMBDA l : \E k \in DOMAIN bskills : bskills[k].id = l.skill_id)

\* the store (ss, ls) holds the records (bskills, blogs), one for one and in
\* their order, under other ids: each log on the counterpart of its skill
SameUpToIds(ss, ls, bskills, blogs) ==
  /\ Len(ss) = Len(bskills)
  /\ \A i \in DOMAIN ss : SameSkillData(ss[i], bskills[i])
  /\ Len(ls) = Len(blogs)
  /\ \A j \in DOMAIN ls :
       /\ SameLogData(ls[j], blogs[j])
       /\ \E k \in DOMAIN bskills :
            /\ k \in DOMAIN ss
            /\ bskills[k].id = blogs[j].skill_id
            /\ ss[k].id = ls[j].skill_id

\* the store (ss, ls) holds a log at the time of l on a skill named as sk
AttachedByName(ss, ls, sk, l) ==
  \E j \in DOMAIN ls, k \in DOMAIN ss :
    /\ ls[j].practiced_at = l.practiced_at
    /\ ls[j].skill_id = ss[k].id
    /\ ss[k].name = sk.name

CountNamed(ss, name) == Cardinality({i \in DOMAIN ss : ss[i].name = name})
CountStamped(ls, skill_id, at) ==
  Cardinality({j \in DOMAIN ls : ls[j].skill_id = skill_id /\ ls[j].practiced_at = at})

\* C11: after an import with mode replace the store holds exactly the
\* bundle's skills and those of the bundle's logs whose skill reference
\* resolves to a bundle skill (ids possibly remapped); nothing of the prior
\* store remains.
C11_ReplaceStep ==
  (IsImport /\ resp'.mode = "replace" /\ HasArrays(Incoming)) =>
    SameUpToIds(skills', logs', InSkills(Incoming),
                Resolving(InSkills(Incoming), InLogs(Incoming)))

C11_ReplaceExact == [][C11_ReplaceStep]_vars

\* C11 on the server host
C11_OnServer == [][host = "server" => C11_ReplaceStep]_vars

\* C12: an import with mode merge inserts no skill whose name is the name of
\* a skill already in the store: the stored skills stay as they were, no
\* further skill of that name appears, and the incoming logs of that skill
\* are on a stored skill of that name.
C12_MergeStep ==
  (IsImport /\ resp'.mode = "merge" /\ HasArrays(Incoming)) =>
    \A i \in DOMAIN InSkills(Incoming) :
      LET sk == InSkills(Incoming)[i] IN
        CountNamed(skills, sk.name) > 0 =>
          /\ Len(skills') >= Len(skills)
          /\ SubSeq(skills', 1, Len(skills)) = skills
          /\ CountNamed(skills', sk.name) = CountNamed(skills, sk.name)
          /\ \A j \in DOMAIN InLogs(Incoming) :
               InLogs(Incoming)[j].skill_id = sk.id =>
                 AttachedByName(skills', logs', sk, InLogs(Incoming)[j])

C12_MergeSkipsSameName == [][C12_MergeStep]_vars

\* C12 on the server host
C12_OnServer == [][host = "server" => C12_MergeStep]_vars

\* C13: an import with mode merge adds no log on a (skill, practiced_at) pair
\* the store already holds a log for, and every other incoming log whose
\* skill is an incoming skill is in the store afterwards, on a skill of that
\* name.
C13_MergeStep ==
  (IsImport /\ resp'.mode = "merge" /\ HasArrays(Incoming)) =>
    /\ \A j \in DOMAIN logs :
         CountStamped(logs', logs[j].skill_id, logs[j].practiced_at)
           = CountStamped(logs, logs[j].skill_id, logs[j].practiced_at)
    /\ \A j \in DOMAIN InLogs(Incoming), i \in DOMAIN InSkills(Incoming) :
         InLogs(Incoming)[j].skill_id = InSkills(Incoming)[i].id =>
           AttachedByName(skills', logs', InSkills(Incoming)[i], InLogs(Incoming)[j])

C13_MergeSkipsSameStamp == [][C13_MergeStep]_vars

\* C13 on the server host
C13_OnServer == [][host = "server" => C13_MergeStep]_vars

\* C14: importing with mode merge the bundle that the request before
\* imported with mode merge inserts nothing: the store is as it was and the
\* counts returned are zero.
C14_SecondStep ==
  (/\ IsImport /\ resp'.mode = "merge" /\ HasArrays(Incoming)
   /\ resp.op = "import" /\ resp.mode = "merge" /\ resp.request = Incoming) =>
    /\ skills' = skills
    /\ logs' = logs
    /\ resp'.skills_imported = 0
    /\ "logs_imported" \in DOMAIN resp' => resp'.logs_imported = 0

C14_MergeIdempotent == [][C14_SecondStep]_vars

\* a merge import that found all of a bundle with skills and logs in place
C14_Witness ==
  /\ resp.op = "import"
  /\ resp.mode = "merge"
  /\ HasArrays(resp.request)
  /\ resp.skills_imported = 0
  /\ "logs_imported" \in DOMAIN resp => resp.logs_imported = 0
  /\ SameUpToIds(skills, logs, Val(resp.request.skills), Val(resp.request.practice_logs))

\* what the data model asks of a store: ids identify the skills, every log
\* is on a stored skill, decay_rate > 0, target_frequency_days >= 1
StoreDomain(ss, ls) ==
  /\ \A i, k \in DOMAIN ss : ss[i].id = ss[k].id => i = k
  /\ \A j \in DOMAIN ls : \E k \in DOMAIN ss : ss[k].id = ls[j].skill_id
  /\ \A i \in DOMAIN ss : ss[i].decay_rate > 0 /\ ss[i].target_frequency_days >= 1

DistinctNames(ss) == \A i, k \in DOMAIN ss : ss[i].name = ss[k].name => i = k

DistinctStamps(ls) ==
  \A j, k \in DOMAIN ls :
    (ls[j].skill_id = ls[k].skill_id /\ ls[j].practiced_at = ls[k].practiced_at) => j = k

\* the export of the present store, and what a merge import of it leaves in
\* an empty store
Exported ==
  IF host = "server" THEN SrvExportData(skills, logs) ELSE ExportAllData(skills, logs)

Reimported ==
  IF host = "server"
  THEN SrvImportResult(<<>>, <<>>, nextSkillId, nextLogId, Exported, "merge")
  ELSE ImportResult(<<>>, <<>>, Exported, "merge")

RoundTripExact == SameUpToIds(Reimported.skills, Reimported.logs, skills, logs)

C15_Store ==
  (StoreDomain(skills, logs) /\ DistinctNames(skills) /\ DistinctStamps(logs)) =>
    RoundTripExact

C15_ExportIsStore == resp.op = "export" => resp.body = Exported

C15_ImportStep ==
  (/\ IsImport /\ resp'.mode = "merge" /\ HasArrays(Incoming)
   /\ skills = <<>> /\ logs = <<>>
   /\ StoreDomain(InSkills(Incoming), InLogs(Incoming))
   /\ DistinctNames(InSkills(Incoming))
   /\ DistinctStamps(InLogs(Incoming))) =>
    SameUpToIds(skills', logs', InSkills(Incoming), InLogs(Incoming))

Failed(r) == ("status" \in DOMAIN r /\ r.status >= 400) \/ "error" \in DOMAIN r

\* C16: an import (either mode) inserts no incoming log whose skill_id is
\* the id of no incoming skill; the import completes and the other incoming
\* logs are in the store afterwards.
C16_DanglingStep ==
  (IsImport /\ HasArrays(Incoming)) =>
    /\ ~Failed(resp')
    /\ Len(logs') - Len(PriorLogs)
         <= Len(Resolving(InSkills(Incoming), InLogs(Incoming)))
    /\ \A j \in (Len(PriorLogs) + 1)..Len(logs') :
         \E k \in DOMAIN skills' : skills'[k].id = logs'[j].skill_id
    /\ \A j \in DOMAIN InLogs(Incoming), i \in DOMAIN InSkills(Incoming) :
         InLogs(Incoming)[j].skill_id = InSkills(Incoming)[i].id =>
           AttachedByName(skills', logs', InSkills(Incoming)[i], InLogs(Incoming)[j])

C16_DanglingSkipped == [][C16_DanglingStep]_vars

\* C16 on the server host
C16_OnServer == [][host = "server" => C16_DanglingStep]_vars

\* C17: an import returns a skills count and a logs count, each the number
\* of records the call added to the store.
C17_CountsStep ==
  IsImport =>
    /\ "skills_imported" \in DOMAIN resp'
    /\ "logs_imported" \in DOMAIN resp'
    /\ resp'.skills_imported = Len(skills') - Len(PriorSkills)
    /\ resp'.logs_imported = Len(logs') - Len(PriorLogs)

C17_ImportCounts == [][C17_CountsStep]_vars

\* C17 on the server host
C17_OnServer == [][host = "server" => C17_CountsStep]_vars

\* C18: an import whose bundle lacks the skills or the practice_logs array
\* fails, and leaves skills and logs as they were, in either mode.
C18_MalformedStep ==
  (IsImport /\ ~HasArrays(Incoming)) =>
    /\ Failed(resp')
    /\ skills' = skills
    /\ logs' = logs

C18_MalformedImportFails == [][C18_MalformedStep]_vars

\* C19: after deleteSkill(id) no skill has the id and no log has it as
\* skill_id; every other skill and log is as before.
C19_DeleteStep ==
  resp'.op = "deleteSkill" =>
    LET id == resp'.request IN
      /\ \A k \in DOMAIN skills' : skills'[k].id # id
      /\ \A j \in DOMAIN logs' : logs'[j].skill_id # id
      /\ skills' = SelectSeq(skills, LAMBDA x : x.id # id)
      /\ logs' = SelectSeq(logs, LAMBDA l : l.skill_id # id)

C19_DeleteCascades == [][C19_DeleteStep]_vars

\* a stored skill has been deleted while another skill and some log stay
C19_Witness ==
  /\ resp.op = "deleteSkill"
  /\ resp.request \notin {9}
  /\ \A k \in DOMAIN skills : skills[k].id # resp.request
  /\ skills # <<>>
  /\ logs # <<>>

\* C20: every stored log's skill_id is the id of exactly one stored skill.
C20_LogsOwned ==
  \A j \in DOMAIN logs :
    Cardinality({k \in DOMAIN skills : skills[k].id = logs[j].skill_id}) = 1

\* C20 on the server host
C20_OnServer == host = "server" => C20_LogsOwned

\* ------------------------------------------------------------------------
\* validation, field ranges, partial update, ids
\* ------------------------------------------------------------------------

\* ------------------------------------------------------------ input sets
\* what a caller can send to create a skill and to log a practice: valid
\* and invalid names, rates, durations and qualities
WNames == {"a", ""}
WRates == {Null, Some(-5)}
WSrvDurations == {Null, Some(-5)}
WSrvQualities == {Null, Some(0), Some(6)}
\* (duration, quality) of the client's callers
WPractices == {<<30, 3>>, <<-5, 6>>}
\* partial updates: no field, one field, two fields supplied
WUpdates ==
  {[name |-> Null, decay_rate |-> Null, target_frequency_days |-> Null, archived |-> Null],
   [name |-> Null, decay_rate |-> Some(5), target_frequency_days |-> Null, archived |-> Null],
   [name |-> Some("b"), decay_rate |-> Null, target_frequency_days |-> Null, archived |-> Some(1)]}

\* ---------------------------------------------------------------- C21
ValidSkill(s) == s.name # ""
ValidLog(l) ==
  /\ IsNull(l.quality) \/ (Val(l.quality) >= 1 /\ Val(l.quality) <= 5)
  /\ IsNull(l.duration_minutes) \/ Val(l.duration_minutes) >= 0

\* C21: a skill with a missing or empty name, and a practice log with a
\* quality outside 1..5 or a negative duration, is never stored: every
\* stored skill has a name, every stored log a quality in 1..5 (or none)
\* and a duration that is not negative (or none).
C21_OnlyValidStored ==
  /\ \A i \in DOMAIN skills : ValidSkill(skills[i])
  /\ \A i \in DOMAIN logs : ValidLog(logs[i])

\* the part the server keeps: an empty name and a quality outside 1..5 are
\* refused (400, and 500 from the table's CHECK) and nothing is stored
C21_OnServer ==
  /\ [](host = "server" =>
          /\ \A i \in DOMAIN skills : ValidSkill(skills[i])
          /\ \A i \in DOMAIN logs :
               IsNull(logs[i].quality)
                 \/ (Val(logs[i].quality) >= 1 /\ Val(logs[i].quality) <= 5))
  /\ [][host = "server" /\ resp'.op \in {"createSkill", "logPractice"}
          /\ resp'.status # 200
          => skills' = skills /\ logs' = logs]_vars

\* ---------------------------------------------------------------- C22
\* C22: every stored skill has decay_rate > 0 and target_frequency_days >= 1.
C22_FieldRanges ==
  \A i \in DOMAIN skills :
    skills[i].decay_rate > 0 /\ skills[i].target_frequency_days >= 1

\* ---------------------------------------------------------------- C23
IsUpdate == resp'.op = "updateSkill"
Supplied(f) == ~IsNull(resp'.request.updates[f])
Fields == {"name", "decay_rate", "target_frequency_days", "archived"}

\* C23: updateSkill(id, updates) leaves the logs, the number and order of the
\* skills and every skill with another id as they were; a skill with the id
\* keeps its id and every field that was not supplied, and the (first) skill
\* with the id takes every supplied value; when no skill has the id the
\* store is unchanged.
C23_UpdateStep ==
  IsUpdate =>
    /\ logs' = logs
    /\ Len(skills') = Len(skills)
    /\ \A i \in DOMAIN skills :
         /\ skills'[i].id = skills[i].id
         /\ skills[i].id # resp'.request.id => skills'[i] = skills[i]
         /\ \A f \in Fields : ~Supplied(f) => skills'[i][f] = skills[i][f]
         /\ (skills[i].id = resp'.request.id
              /\ \A k \in 1..(i - 1) : skills[k].id # resp'.request.id)
            => \A f \in Fields :
                 Supplied(f) => skills'[i][f] = Val(resp'.request.updates[f])
    /\ (\A i \in DOMAIN skills : skills[i].id # resp'.request.id)
         => skills' = skills

C25_UniqueIds ==
  /\ \A i, k \in DOMAIN skills : skills[i].id = skills[k].id => i = k
  /\ \A i, k \in DOMAIN logs : logs[i].id = logs[k].id => i = k

\* the server's ids come from AUTOINCREMENT counters
C25_OnServer == host = "server" => C25_UniqueIds

\* ---------------------------------------------------------------- C24
ReadOps == {"skills", "dashboard", "alerts", "history", "export"}

\* what the host answers to the request of response r in the present state
Answer(r) ==
  CASE r.op = "skills" ->
         IF host = "server" THEN SrvListSkills(r.archived) ELSE SkillsWithStats
    [] r.op = "dashboard" -> IF host = "server" THEN SrvDashboard ELSE Dashboard
    [] r.op = "alerts" -> IF host = "server" THEN SrvAlerts ELSE Alerts
    [] r.op = "history" ->
         IF host = "server" THEN SrvHistory(Some(r.window)) ELSE History(r.window)
    [] r.op = "export" ->
         IF host = "server" THEN SrvExportData(skills, logs) ELSE ExportAllData(skills, logs)

\* C24: listing the skills with health, the dashboard, the alerts, the
\* history and the export are pure reads: the step of each leaves the skills
\* and the practice logs (content and order), the clock and the id counters
\* as they were, and its result is the one the same request gets from the
\* store it leaves, so a second call on the same store at the same now
\* returns the same.
C24_ReadStep ==
  resp'.op \in ReadOps =>
    /\ skills' = skills /\ logs' = logs /\ now' = now
    /\ nextSkillId' = nextSkillId /\ nextLogId' = nextLogId

C24_ResultOfStore == resp.op \in ReadOps => resp.body = Answer(resp)

C29_BreakdownSum ==
  resp.op = "dashboard" =>
    /\ BreakdownTotal(resp.body.health_breakdown) = resp.body.total_skills
    /\ resp.body.total_skills = Len(Active)
    /\ \A c \in DOMAIN resp.body.health_breakdown :
         resp.body.health_breakdown[c]
           = Cardinality({k \in DOMAIN Active : HostHealth(Active[k]) = c})

\* a dashboard of two non-archived skills, one never practised and one
\* practised, beside none archived
C29_Witness ==
  /\ resp.op = "dashboard"
  /\ host = "server"
  /\ resp.body.total_skills = 2
  /\ resp.body.health_breakdown["unknown"] = 1
  /\ resp.body.health_breakdown["rusty"] + resp.body.health_breakdown["critical"] = 1

\* ================================================ just after a practice

\* ---------------------------------------------------------------- bounds
QMaxNow == 2

\* ------------------------------------------------------------ input sets
\* target_frequency_days of the skills created: a day, and none
QTargets == {1, 0}
QUpdates ==
  {[name |-> Null, decay_rate |-> Null, target_frequency_days |-> Null, archived |-> Some(1)]}

\* ---------------------------------------------------------------- C30
\* a log of the skill stamped with the present time
JustPractised(id) ==
  \E i \in DOMAIN logs : logs[i].skill_id = id /\ logs[i].practiced_at = now

\* what the views held say of the skill at position k
FreshInViews(k) ==
  /\ resp.op = "skills" =>
       \A i \in DOMAIN resp.body :
         resp.body[i].id = skills[k].id =>
           /\ resp.body[i].days_since_practice = Some(0)
           /\ resp.body[i].health = "excellent"
  /\ resp.op = "dashboard" =>
       /\ \A i \in DOMAIN resp.body.decaying_skills :
            resp.body.decaying_skills[i].id # skills[k].id
       /\ resp.body.practiced_today
       /\ resp.body.current_streak >= 1
  /\ resp.op = "alerts" =>
       \A i \in DOMAIN resp.body : resp.body[i].skill_id # skills[k].id

IsPractice ==
  /\ resp'.op \in {"quickPractice", "logPractice", "addPracticeLog"}
  /\ Len(logs') = Len(logs) + 1

\* a practice logged for one skill leaves the health of every skill of
\* another id as it was
OthersKeepHealth ==
  IsPractice =>
    \A k \in DOMAIN skills :
      skills[k].id # logs'[Len(logs')].skill_id =>
        HostHealth(skills[k])' = HostHealth(skills[k])

\* C30: while no time has passed since a practice was logged (by
\* quickPractice, or with the default timestamp) for a non-archived skill s
\* of a store whose ids identify its skills, every view shows s with
\* days_since 0 and health excellent, s is in no decaying_skills and no
\* alert list, practiced_today is true and current_streak >= 1; and the
\* practice left the health of every other skill as it was.
C30_AfterPractice ==
  /\ [](UniqueIds =>
          \A k \in DOMAIN skills :
            (skills[k].archived = 0 /\ JustPractised(skills[k].id)) => FreshInViews(k))
  /\ [][OthersKeepHealth]_vars

\* the same of the server, and of the client's skills that have a
\* target_frequency_days of 1 or more
C30_InRange ==
  /\ [](UniqueIds =>
          \A k \in DOMAIN skills :
            (/\ skills[k].archived = 0
             /\ JustPractised(skills[k].id)
             /\ host = "server" \/ skills[k].target_frequency_days >= 1) => FreshInViews(k))
  /\ [][OthersKeepHealth]_vars

\* ============================================================== streaks

\* ---------------------------------------------------------------- bounds
\* the day the runs of practice days are looked at, and the last day
StreakToday == 42
StreakMaxNow == 44

\* ------------------------------------------------------------ input sets
\* first and last day of a run of daily practice, and a day missed in it
\* (0: none)
RunStarts == {1, 2, 11, 12, 13, 36, 37, 41, 42}
RunEnds == {40, 41, 42}
MissedDays == {0, 38, 41}
PracticeDays ==
  {{d \in s..e : d # g} : s \in RunStarts, e \in RunEnds, g \in MissedDays}

\* one log a day on the days D, and a second one on the last day if twice
StreakLogs(D, twice) ==
  LET days == Ascending(D)
      stamps == IF twice /\ D # {} THEN Append(days, days[Len(days)]) ELSE days
  IN [i \in DOMAIN stamps |->
        [id |-> i, skill_id |-> 1, practiced_at |-> stamps[i] * TicksPerDay,
         duration_minutes |-> Null, quality |-> Null]]

\* a store of one skill after weeks of practice
InitStreak ==
  /\ host \in Hosts
  /\ skills = <<[id |-> 1, name |-> "a", decay_rate |-> DefaultDecayRate,
                 target_frequency_days |-> DefaultTargetDays, archived |-> 0]>>
  /\ \E D \in PracticeDays, twice \in BOOLEAN : logs = StreakLogs(D, twice)
  /\ now = StreakToday * TicksPerDay
  /\ nextSkillId = 2
  /\ nextLogId = Len(logs) + 1
  /\ recentIds = [skill |-> {}, log |-> {}]
  /\ resp = NoResp

\* a day passes
DayPasses ==
  /\ now' = now + TicksPerDay
  /\ recentIds' = [skill |-> {}, log |-> {}]
  /\ resp' = NoResp
  /\ UNCHANGED <<host, skills, logs, nextSkillId, nextLogId>>

\* ------------------------------------------------------- C26, C27, C28
Anchor == IF LogsOn(Today) # {} THEN Today ELSE Today - 1

\* the number of days of the longest run of practice days that ends at day a
RunLength(a) ==
  CHOOSE k \in 0..Cardinality(LogDates) :
    /\ \A i \in 0..(k - 1) : (a - i) \in LogDates
    /\ (a - k) \notin LogDates

\* C26: in a dashboard, when no log is dated today but one is dated
\* yesterday, current_streak is at least 1; when no log is dated today or
\* yesterday, current_streak is 0.
C26_Anchor ==
  resp.op = "dashboard" =>
    /\ (LogsOn(Today) = {} /\ LogsOn(Today - 1) # {}) => resp.body.current_streak >= 1
    /\ (LogsOn(Today) = {} /\ LogsOn(Today - 1) = {}) => resp.body.current_streak = 0

\* C26 on the server alone
C26_OnServer == host = "server" => C26_Anchor

\* C27: in a dashboard, current_streak is the length of the longest run of
\* consecutive practice days that ends at the anchor (today if a log is dated
\* today, else yesterday), counted up to the 30 days of the window; days
\* before a gap and further logs of one day do not count.
C27_RunLength ==
  resp.op = "dashboard" =>
    resp.body.current_streak
      = (IF RunLength(Anchor) <= StreakWindow THEN RunLength(Anchor) ELSE StreakWindow)

\* C27 on the server alone
C27_OnServer == host = "server" => C27_RunLength

\* C28: in a dashboard, current_streak is never greater than 30.
C28_Bounded == resp.op = "dashboard" => resp.body.current_streak <= StreakWindow

\* C28 on the server alone
C28_OnServer == host = "server" => C28_Bounded

\* ------------------------------------------------------- specifications

SkillIds == {skills[i].id : i \in DOMAIN skills}

Next ==
  \/ Tick
  \/ \E name \in Names \cup {""}, p \in Profiles :
       SrvCreateSkill(name, IF p[1] = DefaultDecayRate THEN Null ELSE Some(p[1]), Some(p[2]))
  \/ \E id \in SkillIds, u \in Updates : SrvUpdateSkill(id, u)
  \/ \E id \in SkillIds, d \in SrvDurations, q \in SrvQualities, at \in {Null} :
       SrvLogPractice(id, d, q, at)
  \/ \E id \in SkillIds : SrvQuickPractice(id)
  \/ \E a \in BOOLEAN : SrvGetSkills(a)
  \/ SrvGetDashboard
  \/ SrvGetAlerts
  \/ \E n \in HistoryWindows : SrvGetHistory(Some(n))
  \/ \E name \in Names, p \in Profiles, newId \in generateId(nextSkillId, recentIds.skill) :
       addSkill(name, p[1], p[2], newId)
  \/ \E id \in SkillIds, u \in Updates : updateSkill(id, u)
  \/ \E id \in SkillIds, d \in Durations, q \in Qualities, newId \in generateId(nextLogId, recentIds.log) :
       addPracticeLog(id, d, q, newId)
  \/ \E id \in SkillIds, newId \in generateId(nextLogId, recentIds.log) : quickPractice(id, newId)
  \/ getSkillsWithStats
  \/ getDashboard
  \/ getAlerts
  \/ \E n \in HistoryWindows : getHistory(n)
  \/ SrvExport
  \/ exportAllData

Spec == Init /\ [][Next]_vars

\* ids a caller may address that are no skill's and no log's
UnknownIds == {9}
LogIds == {logs[i].id : i \in DOMAIN logs}

\* the writes, exports and imports of both hosts
NextIO ==
  \/ now < IOMaxNow /\ Tick
  \/ \E name \in IONames, p \in IOProfiles :
       /\ nextSkillId <= MaxIds
       /\ SrvCreateSkill(name, IF p[1] = DefaultDecayRate THEN Null ELSE Some(p[1]), Some(p[2]))
  \/ \E id \in SkillIds, u \in IOUpdates : SrvUpdateSkill(id, u)
  \/ \E id \in SkillIds : nextLogId <= MaxIds /\ SrvLogPractice(id, Null, Null, Null)
  \/ \E id \in UnknownIds : SrvLogPracticeRejected(id)
  \/ \E id \in SkillIds : nextLogId <= MaxIds /\ SrvQuickPractice(id)
  \/ \E id \in SkillIds \cup UnknownIds : SrvDeleteSkill(id)
  \/ \E id \in LogIds \cup UnknownIds : SrvDeleteLog(id)
  \/ SrvExport
  \/ \E bundle \in IOBundles, mode \in Modes : SrvImport(bundle, mode)
  \/ \E name \in IONames, p \in IOProfiles, newId \in generateId(nextSkillId, recentIds.skill) :
       nextSkillId <= MaxIds /\ addSkill(name, p[1], p[2], newId)
  \/ \E id \in SkillIds, u \in IOUpdates : updateSkill(id, u)
  \/ \E id \in SkillIds, d \in Durations, q \in Qualities, newId \in generateId(nextLogId, recentIds.log) :
       nextLogId <= MaxIds /\ addPracticeLog(id, d, q, newId)
  \/ \E id \in SkillIds, newId \in generateId(nextLogId, recentIds.log) :
       nextLogId <= MaxIds /\ quickPractice(id, newId)
  \/ \E id \in SkillIds \cup UnknownIds : deleteSkill(id)
  \/ exportAllData
  \/ \E data \in IOBundles, mode \in Modes : importData(data, mode)

SpecIO == Init /\ [][NextIO]_vars

\* creating, updating and logging with valid and invalid inputs
NextW ==
  \/ \E name \in WNames, r \in WRates : SrvCreateSkill(name, r, Null)
  \/ \E id \in SkillIds \cup UnknownIds, u \in WUpdates : SrvUpdateSkill(id, u)
  \/ \E id \in SkillIds, d \in WSrvDurations, q \in WSrvQualities :
       SrvLogPractice(id, d, q, Null)
  \/ \E name \in WNames, newId \in generateId(nextSkillId, recentIds.skill) :
       addSkill(name, DefaultDecayRate, DefaultTargetDays, newId)
  \/ \E id \in SkillIds \cup UnknownIds, u \in WUpdates : updateSkill(id, u)
  \/ \E id \in SkillIds, p \in WPractices,
        newId \in generateId(nextLogId, recentIds.log) :
       addPracticeLog(id, p[1], p[2], newId)

SpecW == Init /\ [][NextW]_vars

\* creating, archiving, practising and viewing
NextQ ==
  \/ now < QMaxNow /\ Tick
  \/ \E t \in QTargets : SrvCreateSkill("a", Null, Some(t))
  \/ \E id \in SkillIds, u \in QUpdates : SrvUpdateSkill(id, u)
  \/ \E id \in SkillIds : SrvLogPractice(id, Null, Null, Null)
  \/ \E id \in SkillIds : SrvQuickPractice(id)
  \/ SrvGetSkills(FALSE)
  \/ SrvGetDashboard
  \/ SrvGetAlerts
  \/ \E t \in QTargets, newId \in generateId(nextSkillId, recentIds.skill) :
       addSkill("a", DefaultDecayRate, t, newId)
  \/ \E id \in SkillIds, u \in QUpdates : updateSkill(id, u)
  \/ \E id \in SkillIds, newId \in generateId(nextLogId, recentIds.log) :
       quickPractice(id, newId)
  \/ getSkillsWithStats
  \/ getDashboard
  \/ getAlerts

SpecQ == Init /\ [][NextQ]_vars

\* days passing over a store with a history of practice, and its dashboards
NextStreak ==
  \/ now < StreakMaxNow * TicksPerDay /\ DayPasses
  \/ SrvGetDashboard
  \/ getDashboard

SpecStreak == InitStreak /\ [][NextStreak]_vars
====
